---- MODULE Spec2Model ----
(***************************************************************************)
(* A model of gdm's traversal engine (gdm/config.py) and of its Source     *)
(* (gdm/source.py).  One project (the top-level Dependency Set) lives at   *)
(* path <<>>; a working tree is named by the sequence of directoryNames    *)
(* that leads to it: <<"a", "b">> is root/gdm_sources/a/gdm_sources/b.     *)
(* The VCS adapter (gdm/git.py) is modelled at its interface.              *)
(* locdirs holds the projects whose materialization directory exists,      *)
(* locfiles those whose materialization directory holds a declaration      *)
(* file of its own.                                                        *)
(***************************************************************************)
EXTENDS Integers, Sequences, FiniteSets, TLC

VARIABLES sources, sources_locked, file_locked,
          trees, locdirs, locfiles, links, cwd, remote, envCount, last

vars == <<sources, sources_locked, file_locked,
          trees, locdirs, locfiles, links, cwd, remote, envCount, last>>

-----------------------------------------------------------------------------
(* Bounds *)

\* number of events of the environment (edits by the user, pushes upstream)
MaxEnv == 2

\* the nesting of calls the interpreter allows before it raises RecursionError
MaxRecursion == 5

\* the largest finite depth given to a traversal of the cyclic declarations
MaxCycDepth == 3

-----------------------------------------------------------------------------
(* Values *)

\* depth=None: no depth limit
None == -1

DIRTY == "<dirty>"

UNKNOWN == "<unknown>"

MISSING == "<missing>"

\* the value a call that raised has returned
NoCount == -2

Ok == "ok"

UncommittedChanges == "UncommittedChanges"

InvalidRepository == "InvalidRepository"

FileNotFound == "FileNotFoundError"

RecursionError == "RecursionError"

Source(repo, name, rev, link) ==
    [repo |-> repo, dir |-> name, rev |-> rev, link |-> link]

SourceEqFull(s, t) == s = t

\* Source.__eq__: two Sources are equal when their dir is
SourceEq(s, t) == s.dir = t.dir

\* the order of directoryNames (Source.__lt__ compares dir as strings)
DirOrd(d) ==
    CASE d = "a" -> 1
      [] d = "b" -> 2
      [] d = "c" -> 3
      [] d = "d" -> 4
      [] OTHER -> 5

SourceLt(s, t) == DirOrd(s.dir) < DirOrd(t.dir)

-----------------------------------------------------------------------------
(* The world outside: repositories and what each commit declares *)

Hashes == {"h1", "h2"}

Branches == {"master"}

\* the tag v1 names commit h1 in every repository
TagHash(tag) == "h1"

Tags == {"v1"}

NoConfig == [present |-> FALSE, sources |-> <<>>, sources_locked |-> <<>>]

Cfg(srcs, locked) == [present |-> TRUE, sources |-> srcs, sources_locked |-> locked]

\* the declaration file found in a working tree of repo at commit hash
RepoConfig(repo, hash) ==
    CASE repo = "rA" /\ hash = "h1" ->
           Cfg(<<Source("rB", "b", "master", "")>>, <<>>)
      [] repo = "rA" /\ hash = "h2" ->
           Cfg(<<Source("rB", "b", "master", "")>>,
               <<Source("rB", "b", "h1", ""), Source("rC", "d", "h1", "")>>)
      [] repo = "rB" /\ hash = "h1" ->
           Cfg(<<Source("rC", "c", "h1", "lnk")>>, <<>>)
      [] repo = "rB" /\ hash = "h2" ->
           Cfg(<<Source("rC", "c", "master", "")>>, <<Source("rC", "c", "h1", "")>>)
      [] repo = "rX" ->
           Cfg(<<Source("rY", "y", "master", "")>>, <<>>)
      [] repo = "rY" ->
           Cfg(<<Source("rX", "x", "master", "")>>, <<>>)
      [] OTHER -> NoConfig

Repos == {"rA", "rB", "rC"}

\* two repositories that declare one another
CycRepos == {"rX", "rY"}

\* a declaration file lying in a materialization directory: it names that
\* directory as its own location (location: .) and declares one Source
StrayConfig == Cfg(<<Source("rA", "a", "master", "")>>, <<>>)

-----------------------------------------------------------------------------
(* Functions over paths *)

Put(f, k, v) == [x \in DOMAIN f \cup {k} |-> IF x = k THEN v ELSE f[x]]

Drop(f, ks) == [x \in DOMAIN f \ ks |-> f[x]]

IsPrefix(p, q) == Len(p) <= Len(q) /\ SubSeq(q, 1, Len(p)) = p

Range(s) == {s[i] : i \in 1..Len(s)}

\* list.remove(x): drops the first occurrence of x
RECURSIVE Remove(_, _)
Remove(s, x) ==
    IF s = <<>> THEN <<>>
    ELSE IF Head(s) = x THEN Tail(s)
    ELSE <<Head(s)>> \o Remove(Tail(s), x)

\* list.index(source) under Source.__eq__: the first position with the same
\* dir, 0 when there is none (ValueError)
RECURSIVE IndexFrom(_, _, _)
IndexFrom(s, x, i) ==
    IF i > Len(s) THEN 0
    ELSE IF SourceEq(s[i], x) THEN i
    ELSE IndexFrom(s, x, i + 1)

Index(s, x) == IndexFrom(s, x, 1)

\* yorm's SortedList as it is stored: sorted by Source.__lt__
RECURSIVE Insert(_, _)
Insert(s, x) ==
    IF s = <<>> THEN <<x>>
    ELSE IF SourceLt(x, Head(s)) THEN <<x>> \o s
    ELSE <<Head(s)>> \o Insert(Tail(s), x)

RECURSIVE Sorted(_)
Sorted(s) == IF s = <<>> THEN <<>> ELSE Insert(Sorted(SubSeq(s, 1, Len(s) - 1)), s[Len(s)])

-----------------------------------------------------------------------------
(* shell.py: the process working directory and the file system *)

InLoc(p) == [path |-> p, at |-> "loc"]

InTree(p) == [path |-> p, at |-> "tree"]

Entry(op, p, rev) == [op |-> op, path |-> p, rev |-> rev]

Logged(st, op, p, rev) == [st EXCEPT !.log = Append(@, Entry(op, p, rev))]

Raise(st, err, p) == [st EXCEPT !.err = err, !.failedAt = p]

\* the processing of the Source name, declared by the project at cfgpath,
\* begins: the working directory of that moment is kept
Begin(st, cfgpath, name) ==
    [st EXCEPT !.begun = Append(@, [cwd |-> st.cwd, of |-> cfgpath, dir |-> name])]

\* shell.cd(location_path): os.chdir fails when the directory is missing
cd_loc(st, cfgpath) ==
    IF cfgpath \in st.locdirs
    THEN [st EXCEPT !.cwd = InLoc(cfgpath)]
    ELSE Raise(st, FileNotFound, cfgpath)

cd_backSkip(st, cfgpath) == st

\* shell.cd(self.location_path, _show=False): the last statement of the
\* loops of install_deps, lock_deps and get_deps
cd_back(st, cfgpath) == cd_loc(st, cfgpath)

\* shell.cd(self.dir)
cd_tree(st, p) == [st EXCEPT !.cwd = InTree(p)]

\* shell.mkdir(location_path)
mkdir(st, cfgpath) ==
    Logged([st EXCEPT !.locdirs = @ \cup {cfgpath}], "mkdir", cfgpath, "")

\* a relative directoryName is resolved against the working directory; only
\* a materialization directory holds working trees
Outside == <<"?">>

Resolve(c, name) == IF c.at = "loc" THEN c.path \o <<name>> ELSE Outside

\* os.path.exists(self.dir) / os.path.isdir(self.dir)
Exists(st, p) == p \in DOMAIN st.trees

-----------------------------------------------------------------------------
(* git.py, the VCS adapter, at its interface *)

\* the commit a revision names in a working tree: a hash names itself, a tag
\* its commit, a branch the commit the working tree last fetched for it
RevHash(wt, rev) ==
    IF rev \in Hashes THEN rev
    ELSE IF rev \in Tags THEN TagHash(rev)
    ELSE wt.master

\* git.clone(repo, dir): a clean working tree on the remote's master
clone(st, repo, p) ==
    Logged([st EXCEPT !.trees = Put(@, p,
                [repo |-> repo, head |-> st.remote[repo], branch |-> "master",
                 master |-> st.remote[repo],
                 modified |-> FALSE, untracked |-> FALSE])],
           "clone", p, "")

\* git.changes(include_untracked)
changes(wt, include_untracked) ==
    wt.modified \/ (include_untracked /\ wt.untracked)

get_branch(wt) == wt.branch

get_hash(wt) == wt.head

get_tag(wt) == IF \E t \in Tags : TagHash(t) = wt.head
               THEN CHOOSE t \in Tags : TagHash(t) = wt.head
               ELSE ""

get_url(wt) == wt.repo

\* git.fetch(repo, rev): the remote ref becomes known in the working tree
fetch(st, p, repo, rev) ==
    Logged(IF rev \in Branches
           THEN [st EXCEPT !.trees[p].master = st.remote[repo]]
           ELSE st,
           "fetch", p, rev)

\* git.update(rev, fetch, clean): local modifications are stashed, untracked
\* files removed when clean, and rev is checked out
update(st, p, rev, fetchAlways, clean) ==
    LET wt == st.trees[p]
    IN Logged([st EXCEPT !.trees[p] =
                  [wt EXCEPT !.head = RevHash(wt, rev),
                             !.branch = IF rev \in Branches THEN rev ELSE "",
                             !.modified = FALSE,
                             !.untracked = IF clean THEN FALSE ELSE @]],
              "update", p, rev)

-----------------------------------------------------------------------------
(* Sequencing: a statement runs on the state its predecessor has left *)

\* F applied to the value of v
Bind(v, F(_)) == CHOOSE r \in {F(x) : x \in {v}} : TRUE

\* F applied to the value of v unless an exception is on its way up
Then(v, F(_)) == Bind(v, LAMBDA x : IF x.err # Ok THEN x ELSE F(x))

-----------------------------------------------------------------------------
(* source.py *)

BlocksUpdateTrackedOnly(wt, force, clean) == ~force /\ changes(wt, FALSE)

\* update_files, lines 66-69: the check for uncommitted changes
BlocksUpdate(wt, force, clean) == ~force /\ changes(wt, clean)

NeedsFetchNoTag(src, wt, fetchAlways) ==
    fetchAlways \/ src.rev \notin {get_branch(wt), get_hash(wt)}

\* update_files, lines 75-77: is the desired revision to be fetched?
NeedsFetch(src, wt, fetchAlways) ==
    fetchAlways \/ src.rev \notin {get_branch(wt), get_hash(wt), get_tag(wt)}

\* Source.update_files(force, fetch, clean)
update_files(src, st, force, fetchAlways, clean) ==
    LET p == Resolve(st.cwd, src.dir)
        Enter(s) == cd_tree(IF ~Exists(s, p) THEN clone(s, src.repo, p) ELSE s, p)
        Check(s) == IF BlocksUpdate(s.trees[p], force, clean)
                    THEN Raise(s, UncommittedChanges, p)
                    ELSE s
        Fetch(s) == IF NeedsFetch(src, s.trees[p], fetchAlways)
                    THEN fetch(s, p, src.repo, src.rev)
                    ELSE s
        Checkout(s) == update(s, p, src.rev, fetchAlways, clean)
    IN Then(Then(Then(Then(st, Enter), Check), Fetch), Checkout)

\* what lies at root/link: nothing, a symbolic link or something else
LinkKind(st, t) == IF t \in DOMAIN st.links THEN st.links[t].kind ELSE "none"

\* os.remove(target) / shell.rm(target)
unlink(st, t) == [st EXCEPT !.links = Drop(@, {t})]

\* shell.ln(source, target)
ln(st, t) ==
    Logged([st EXCEPT !.links = Put(@, t, [kind |-> "symlink", to |-> st.cwd.path])],
           "ln", st.cwd.path, t[2])

BlocksLinkNever(kind, force) == FALSE

\* create_link, lines 89-97: may the entry at the target be replaced?
BlocksLink(kind, force) == kind = "file" /\ ~force

\* Source.create_link(root, force); root is the project at cfgpath
create_link(src, st, cfgpath, force) ==
    IF src.link = "" THEN st
    ELSE LET t == <<cfgpath, src.link>>
             Link(s) == ln(s, t)
         IN IF BlocksLink(LinkKind(st, t), force)
            THEN Raise(st, UncommittedChanges, st.cwd.path)
            ELSE Bind(unlink(st, t), Link)

\* Source.identify(allow_dirty, allow_missing): the result is left in ident
identify(src, st, allow_dirty, allow_missing) ==
    LET p == Resolve(st.cwd, src.dir)
        Report(s) ==
            IF changes(s.trees[p], FALSE)
            THEN IF ~allow_dirty
                 THEN Raise(s, UncommittedChanges, p)
                 ELSE [s EXCEPT !.ident = <<s.cwd, get_url(s.trees[p]), DIRTY>>]
            ELSE [s EXCEPT !.ident = <<s.cwd, get_url(s.trees[p]),
                                       get_hash(s.trees[p])>>]
    IN IF Exists(st, p)
       THEN Bind(cd_tree(st, p), Report)
       ELSE IF allow_missing
            THEN [st EXCEPT !.ident = <<st.cwd, MISSING, UNKNOWN>>]
            ELSE Raise(st, InvalidRepository, p)

\* lock, line 133: the Source made from the identified revision
Locked(src, s) ==
    [s EXCEPT !.made = Source(src.repo, src.dir, s.ident[3], src.link)]

lockAllowMissing(src, st) ==
    LET Make(s) == Locked(src, s)
    IN Then(identify(src, st, TRUE, TRUE), Make)

\* Source.lock(): the locked Source is left in made
lock(src, st) ==
    LET Make(s) == Locked(src, s)
    IN Then(identify(src, st, TRUE, FALSE), Make)

-----------------------------------------------------------------------------
(* config.py *)

\* load(): the Dependency Set declared in the working directory, if any
load(st) ==
    IF st.cwd.at = "tree" /\ st.cwd.path \in DOMAIN st.trees
    THEN RepoConfig(st.trees[st.cwd.path].repo, st.trees[st.cwd.path].head)
    ELSE IF st.cwd.at = "loc" /\ st.cwd.path \in st.locfiles
    THEN StrayConfig
    ELSE NoConfig

\* the Sources of srcs whose dir has no entry in locked
RECURSIVE Unlocked(_, _)
Unlocked(srcs, locked) ==
    IF srcs = <<>> THEN <<>>
    ELSE IF \E i \in 1..Len(locked) : SourceEq(locked[i], Head(srcs))
    THEN Unlocked(Tail(srcs), locked)
    ELSE <<Head(srcs)>> \o Unlocked(Tail(srcs), locked)

_get_sourcesMerged(config, use_locked) ==
    IF use_locked = "True"
    THEN IF config.sources_locked # <<>> THEN config.sources_locked ELSE <<>>
    ELSE IF use_locked = "False"
    THEN config.sources
    ELSE config.sources_locked \o Unlocked(config.sources, config.sources_locked)

_get_sourcesFallback(config, use_locked) ==
    IF use_locked = "False" THEN config.sources
    ELSE IF config.sources_locked # <<>> THEN config.sources_locked
         ELSE config.sources

\* Config._get_sources(use_locked), use_locked one of "True", "False", "None"
_get_sources(config, use_locked) ==
    IF use_locked = "True"
    THEN IF config.sources_locked # <<>> THEN config.sources_locked ELSE <<>>
    ELSE IF use_locked = "False"
    THEN config.sources
    ELSE IF config.sources_locked # <<>> THEN config.sources_locked
         ELSE config.sources

DepthExhaustedOffByOne(depth) == depth = 1

\* install_deps, line 51: is this level skipped?
DepthExhausted(depth) == depth = 0

NestedDepthSame(depth) == depth

\* install_deps, line 82: the depth handed to the nested Dependency Set
NestedDepth(depth) ==
    IF depth = None THEN None ELSE IF depth - 1 > 0 THEN depth - 1 ELSE 0

InstallUseLockedNever(upd) == "False"

\* install_deps, line 59
InstallUseLocked(upd) == IF upd THEN "False" ELSE "None"

\* install_deps, line 60 / lock_deps, line 107
TargetDirs(names, srcs) ==
    IF names # <<>> THEN names ELSE [i \in 1..Len(srcs) |-> srcs[i].dir]

SelectedAlways(src, dirs) == TRUE

\* install_deps, line 66
Selected(src, dirs) == src.dir \in Range(dirs)

\* install_deps, lines 94-98
InstallResult(dirs, count) == IF dirs # <<>> THEN 0 ELSE count

NestedArgsSameUpdate(a) ==
    [a EXCEPT !.names = <<>>, !.depth = NestedDepth(a.depth)]

\* the arguments of the nested call, lines 81-88
NestedArgs(a) ==
    [a EXCEPT !.names = <<>>,
              !.depth = NestedDepth(a.depth),
              !.update = a.update /\ a.recurse]

PropagateSwallow(n, dirs, count) ==
    [n EXCEPT !.err = Ok, !.dirs = dirs, !.count = count]

\* install_deps, line 81: the nested call's count is added to the running
\* count; what the nested call raises is raised by this call
Propagate(n, dirs, count) ==
    IF n.err # Ok THEN n
    ELSE [n EXCEPT !.dirs = dirs, !.count = count + n.ret]

RECURSIVE install_deps(_, _, _, _)
RECURSIVE install_loop(_, _, _, _, _)

\* the body of the loop of install_deps, lines 66-91, for the source src;
\* the names not matched yet are in st.dirs and the running count in st.count
install_step(cfgpath, src, a, st) ==
    LET Files(s) == update_files(src, s, a.force, a.fetch, a.clean)
        Link(s) == create_link(src, s, cfgpath, a.force)
        Count(s) == [s EXCEPT !.count = @ + 1]
        Outer(s) == LET Add(n) == Propagate(n, s.dirs, s.count)
                    IN Bind(install_deps(s.cwd.path, load(s), NestedArgs(a), s), Add)
        Nested(s) == IF load(s).present THEN Outer(s) ELSE s
        Back(s) == cd_back(s, cfgpath)
    IN Then(Then(Then(Then(Then(Begin([st EXCEPT !.dirs = Remove(@, src.dir)],
                                      cfgpath, src.dir),
                                Files), Link), Count), Nested), Back)

\* the loop of install_deps, lines 65-91, from the i-th source on
install_loop(cfgpath, srcs, i, a, st) ==
    IF st.err # Ok \/ i > Len(srcs) THEN st
    ELSE LET Rest(s) == install_loop(cfgpath, srcs, i + 1, a, s)
         IN IF ~Selected(srcs[i], st.dirs) THEN Rest(st)
            ELSE Bind(install_step(cfgpath, srcs[i], a, st), Rest)

\* install_deps, lines 55-98, with the arguments a and the state st
install_body(cfgpath, srcs, a, st) ==
    LET Enter(s) == cd_loc(IF cfgpath \notin s.locdirs THEN mkdir(s, cfgpath) ELSE s,
                           cfgpath)
        Loop(s) == install_loop(cfgpath, srcs, 1, a,
                                [s EXCEPT !.dirs = TargetDirs(a.names, srcs),
                                          !.count = 0])
        Return(s) == [s EXCEPT !.ret = InstallResult(s.dirs, s.count)]
    IN Then(Then(Then(st, Enter), Loop), Return)

\* Config.install_deps(*names, depth, update, recurse, force, fetch, clean)
\* of the Dependency Set config at cfgpath; the count is left in ret
install_deps(cfgpath, config, a, st) ==
    LET Call(t) ==
          IF DepthExhausted(t[2].depth) THEN [t[3] EXCEPT !.ret = 0]
          ELSE install_body(cfgpath, t[1], t[2], t[3])
    IN Bind(<<_get_sources(config, InstallUseLocked(a.update)), a, st>>, Call)

\* lock_deps, lines 115-120: the locked Source replaces the entry that is
\* equal to it, or is appended
Substitute(locked, src, made) ==
    IF Index(locked, src) = 0 THEN Append(locked, made)
    ELSE [locked EXCEPT ![Index(locked, src)] = made]

\* the body of the loop of lock_deps, lines 115-125, for the source src
lock_step(src, st) ==
    LET Write(s) == [s EXCEPT !.locked = Substitute(@, src, s.made),
                              !.count = @ + 1]
        Back(s) == cd_back(s, <<>>)
        Lock_(s) == lock(src, s)
    IN Then(Then(Then(Begin(st, <<>>, src.dir), Lock_), Write), Back)

\* the loop of lock_deps, lines 110-125; the list being written is st.locked
RECURSIVE lock_loop(_, _, _, _)
lock_loop(srcs, i, dirs, st) ==
    IF st.err # Ok \/ i > Len(srcs) THEN st
    ELSE LET Rest(s) == lock_loop(srcs, i + 1, dirs, s)
         IN IF srcs[i].dir \notin Range(dirs) THEN Rest(st)
            ELSE Bind(lock_step(srcs[i], st), Rest)

LockUseLockedOrNone(obey_existing) == IF obey_existing THEN "None" ELSE "False"

\* lock_deps, line 106: use_locked=obey_existing
LockUseLocked(obey_existing) == IF obey_existing THEN "True" ELSE "False"

ShouldSaveAlways(count) == TRUE

\* lock_deps, line 127: is the declaration file written?
ShouldSave(count) == count # 0

\* Config.lock_deps(*names, obey_existing) of the top-level Dependency Set
lock_deps(config, names, obey_existing, st) ==
    LET srcs == _get_sources(config, LockUseLocked(obey_existing))
        Loop(s) == lock_loop(srcs, 1, TargetDirs(names, srcs), [s EXCEPT !.count = 0])
        Return(s) == [s EXCEPT !.ret = s.count, !.saved = ShouldSave(s.count)]
    IN Then(Then(cd_loc(st, <<>>), Loop), Return)

\* Config.uninstall_deps(): rm -rf of the materialization directory
uninstall_deps(st) ==
    Logged([st EXCEPT !.cwd = InTree(<<>>),
                      !.trees = Drop(@, DOMAIN @),
                      !.locdirs = {},
                      !.locfiles = {},
                      !.links = Drop(@, {t \in DOMAIN @ : t[1] # <<>>})],
           "rm", <<>>, "")

LocationExistsAlways(st, cfgpath) == TRUE

\* get_deps, line 139: os.path.exists(self.location_path)
LocationExists(st, cfgpath) == cfgpath \in st.locdirs

ListNestedDepthSame(depth) == depth

\* get_deps, line 159: the depth handed to the nested Dependency Set
ListNestedDepth(depth) ==
    IF depth = None THEN None ELSE IF depth - 1 > 0 THEN depth - 1 ELSE 0

ListSkipsNever(depth) == FALSE

\* get_deps, line 148: is the Source skipped?
ListSkips(depth) == depth = 0

\* get_deps, line 152: what identify returned is yielded; of is the directory
\* the Source's dir named and level the nesting of the call that yields
Yielded(s, p, level) ==
    [s EXCEPT !.out = Append(@, [of |-> p, level |-> level, path |-> s.ident[1],
                                 url |-> s.ident[2], rev |-> s.ident[3]])]

RECURSIVE get_deps(_, _, _, _, _, _)
RECURSIVE get_loop(_, _, _, _, _, _, _)

\* the body of the loop of get_deps, lines 152-164, for the source src
get_step(cfgpath, src, depth, allow_dirty, level, st) ==
    LET Ident(s) == identify(src, s, allow_dirty, TRUE)
        Yield(s) == Yielded(s, Resolve(st.cwd, src.dir), level)
        Nested(s) == IF load(s).present
                     THEN get_deps(s.cwd.path, load(s), ListNestedDepth(depth),
                                   allow_dirty, level + 1, s)
                     ELSE s
        Back(s) == cd_back(s, cfgpath)
    IN Then(Then(Then(Then(Begin(st, cfgpath, src.dir), Ident), Yield), Nested), Back)

\* the loop of get_deps, lines 146-164, from the i-th source on
get_loop(cfgpath, srcs, i, depth, allow_dirty, level, st) ==
    IF st.err # Ok \/ i > Len(srcs) THEN st
    ELSE LET Rest(s) == get_loop(cfgpath, srcs, i + 1, depth, allow_dirty, level, s)
         IN IF ListSkips(depth) THEN Rest(st)
            ELSE Bind(get_step(cfgpath, srcs[i], depth, allow_dirty, level, st), Rest)

\* Config.get_deps(depth, allow_dirty) of the Dependency Set config at
\* cfgpath, consumed to its end; what it yields is left in out.  level is the
\* nesting of the call.
get_deps(cfgpath, config, depth, allow_dirty, level, st) ==
    LET Call(t) ==
          LET Loop(s) == get_loop(cfgpath, t[1], 1, t[2], allow_dirty, t[3], s)
          IN IF t[3] > MaxRecursion THEN Raise(t[4], RecursionError, cfgpath)
             ELSE IF ~LocationExists(t[4], cfgpath) THEN t[4]
             ELSE Then(cd_loc(t[4], cfgpath), Loop)
    IN Bind(<<config.sources, depth, level, st>>, Call)

-----------------------------------------------------------------------------
(* The state machine *)

NoSource == Source("", "", "", "")

\* the state an operation starts from
St == [trees |-> trees, locdirs |-> locdirs, links |-> links, cwd |-> cwd,
       remote |-> remote, log |-> <<>>, err |-> Ok, failedAt |-> <<>>,
       ret |-> NoCount, ident |-> <<>>, made |-> NoSource,
       locked |-> sources_locked, dirs |-> <<>>, count |-> 0, saved |-> FALSE,
       locfiles |-> locfiles, out |-> <<>>, begun |-> <<>>]

\* the top-level Dependency Set, Config(root)
TopConfig == Cfg(sources, sources_locked)

DefaultArgs == [names |-> <<>>, depth |-> None, update |-> TRUE,
                recurse |-> FALSE, force |-> FALSE, fetch |-> FALSE,
                clean |-> TRUE]

NameLists == {<<>>, <<"a">>, <<"b">>, <<"zz">>, <<"a", "zz">>}

Depths == {None, 0, 1, 2}

AllArgs == [names : NameLists, depth : Depths, update : BOOLEAN,
            recurse : BOOLEAN, force : BOOLEAN, fetch : BOOLEAN,
            clean : BOOLEAN]

\* the calls of install_deps the model makes: the default call, the calls
\* that give one argument, and some that give two
InstallCalls ==
    {a \in AllArgs :
        \E f \in DOMAIN DefaultArgs : a = [DefaultArgs EXCEPT ![f] = a[f]]}
    \cup {[DefaultArgs EXCEPT !.depth = 0, !.force = TRUE],
          [DefaultArgs EXCEPT !.depth = 1, !.names = <<"a">>],
          [DefaultArgs EXCEPT !.force = TRUE, !.clean = FALSE],
          [DefaultArgs EXCEPT !.update = FALSE, !.depth = 1],
          [DefaultArgs EXCEPT !.update = FALSE, !.names = <<"b">>],
          [DefaultArgs EXCEPT !.fetch = TRUE, !.names = <<"b">>]}

NoArgs == DefaultArgs

Record(op, a, obey, r) ==
    [op |-> op, args |-> a, obey |-> obey,
     result |-> r.err,
     ret |-> IF r.err = Ok THEN r.ret ELSE NoCount,
     log |-> r.log, failedAt |-> r.failedAt,
     repeat |-> op = "install" /\ last.op = "install" /\ last.args = a
                /\ last.result = Ok,
     out |-> r.out, begun |-> r.begun, saved |-> r.saved]

SA == Source("rA", "a", "master", "")

SB == Source("rC", "b", "v1", "lnk")

InitLast == [op |-> "init", args |-> NoArgs, obey |-> FALSE, result |-> Ok,
             ret |-> NoCount, log |-> <<>>, failedAt |-> <<>>,
             repeat |-> FALSE, out |-> <<>>, begun |-> <<>>, saved |-> FALSE]

Init ==
    /\ sources = <<SA, SB>>
    /\ sources_locked \in {<<>>, <<Source("rA", "a", "h1", "")>>}
    /\ file_locked = sources_locked
    /\ trees = [x \in {} |-> 0]
    /\ locdirs = {}
    /\ locfiles = {}
    /\ links = [x \in {} |-> 0]
    /\ cwd = InTree(<<>>)
    /\ remote = [r \in Repos |-> IF r = "rC" THEN "h2" ELSE "h1"]
    /\ envCount = 0
    /\ last = InitLast

Effect(r) ==
    /\ trees' = r.trees
    /\ locdirs' = r.locdirs
    /\ links' = r.links
    /\ cwd' = r.cwd

Install(a) ==
    \E r \in {install_deps(<<>>, TopConfig, a, St)} :
       /\ Effect(r)
       /\ last' = Record("install", a, FALSE, r)
       /\ UNCHANGED <<sources, sources_locked, file_locked, locfiles, remote,
                      envCount>>

Lock(names, obey_existing) ==
    \E r \in {lock_deps(TopConfig, names, obey_existing, St)} :
       /\ Effect(r)
       /\ sources_locked' = r.locked
       /\ file_locked' = IF r.saved THEN Sorted(r.locked) ELSE file_locked
       /\ last' = Record("lock", [NoArgs EXCEPT !.names = names], obey_existing, r)
       /\ UNCHANGED <<sources, locfiles, remote, envCount>>

Uninstall ==
    \E r \in {uninstall_deps(St)} :
       /\ Effect(r)
       /\ locfiles' = r.locfiles
       /\ last' = Record("uninstall", NoArgs, FALSE, [r EXCEPT !.ret = 0])
       /\ UNCHANGED <<sources, sources_locked, file_locked, remote, envCount>>

EnvRecord == [op |-> "env", args |-> NoArgs, obey |-> FALSE, result |-> Ok,
              ret |-> NoCount, log |-> <<>>, failedAt |-> <<>>,
              repeat |-> FALSE, out |-> <<>>, begun |-> <<>>, saved |-> FALSE]

\* the user edits a tracked file of a working tree, or adds an untracked one
Edit(p, tracked) ==
    /\ envCount < MaxEnv
    /\ p \in DOMAIN trees
    /\ trees' = IF tracked THEN [trees EXCEPT ![p].modified = TRUE]
                ELSE [trees EXCEPT ![p].untracked = TRUE]
    /\ envCount' = envCount + 1
    /\ last' = EnvRecord
    /\ UNCHANGED <<sources, sources_locked, file_locked, locdirs, locfiles,
                   links, cwd, remote>>

\* the user puts a regular file where the link of the top-level project goes
PlaceFile(alias) ==
    /\ envCount < MaxEnv
    /\ <<<<>>, alias>> \notin DOMAIN links
    /\ links' = Put(links, <<<<>>, alias>>, [kind |-> "file", to |-> <<>>])
    /\ envCount' = envCount + 1
    /\ last' = EnvRecord
    /\ UNCHANGED <<sources, sources_locked, file_locked, trees, locdirs,
                   locfiles, cwd, remote>>

Next ==
    \/ \E a \in InstallCalls : Install(a)
    \/ Uninstall
    \/ \E p \in DOMAIN trees, tracked \in BOOLEAN : Edit(p, tracked)
    \/ PlaceFile("lnk")

Spec == Init /\ [][Next]_vars

\* locking: the top-level working trees are installed, edited and locked
LockInstalls == {[DefaultArgs EXCEPT !.depth = 1],
                 [DefaultArgs EXCEPT !.depth = 1, !.names = <<"a">>]}

LockNames == {<<>>, <<"a">>, <<"b">>, <<"zz">>}

NextLock ==
    \/ \E a \in LockInstalls : Install(a)
    \/ \E names \in LockNames, obey \in BOOLEAN : Lock(names, obey)
    \/ \E p \in DOMAIN trees, tracked \in BOOLEAN : Edit(p, tracked)

SpecLock == Init /\ [][NextLock]_vars

\* listing: projects are installed, edited, locked, listed and removed, and a
\* declaration file may appear in the materialization directory
InitList ==
    /\ sources = <<SA, SB>>
    /\ sources_locked \in {<<>>, <<Source("rA", "a", "h1", "")>>}
    /\ file_locked = sources_locked
    /\ trees = [x \in {} |-> 0]
    /\ locdirs = {}
    /\ locfiles = {}
    /\ links = [x \in {} |-> 0]
    /\ cwd = InTree(<<>>)
    /\ remote \in {[r \in Repos |-> IF r = "rC" THEN "h2" ELSE "h1"],
                   [r \in Repos |-> IF r = "rB" THEN "h1" ELSE "h2"]}
    /\ envCount = 0
    /\ last = InitLast

ListArgs(depth, allow_dirty) == [depth |-> depth, allow_dirty |-> allow_dirty]

List(depth, allow_dirty) ==
    \E r \in {get_deps(<<>>, TopConfig, depth, allow_dirty, 1, St)} :
       /\ Effect(r)
       /\ last' = Record("list", ListArgs(depth, allow_dirty), FALSE, r)
       /\ UNCHANGED <<sources, sources_locked, file_locked, locfiles, remote,
                      envCount>>

\* a declaration file is put into the materialization directory of the
\* project at q
PlaceConfig(q) ==
    /\ envCount < MaxEnv
    /\ q \in locdirs
    /\ q \notin locfiles
    /\ locfiles' = locfiles \cup {q}
    /\ envCount' = envCount + 1
    /\ last' = EnvRecord
    /\ UNCHANGED <<sources, sources_locked, file_locked, trees, locdirs, links,
                   cwd, remote>>

ListInstalls == {DefaultArgs,
                 [DefaultArgs EXCEPT !.names = <<"a">>],
                 [DefaultArgs EXCEPT !.names = <<"b">>],
                 [DefaultArgs EXCEPT !.depth = 1]}

ListLocks == {<<>>, <<"b">>}

NextList ==
    \/ \E a \in ListInstalls : Install(a)
    \/ \E d \in Depths, allow_dirty \in BOOLEAN : List(d, allow_dirty)
    \/ Uninstall
    \/ \E p \in DOMAIN trees, tracked \in BOOLEAN : Edit(p, tracked)
    \/ PlaceConfig(<<>>)

SpecList == InitList /\ [][NextList]_vars

\* the working directory: the three traversals follow one another
CwdInstalls == {DefaultArgs, [DefaultArgs EXCEPT !.names = <<"b">>]}

NextCwd ==
    \/ \E a \in CwdInstalls : Install(a)
    \/ \E d \in {None, 1} : List(d, TRUE)
    \/ \E names \in ListLocks, obey \in BOOLEAN : Lock(names, obey)
    \/ Uninstall
    \/ PlaceConfig(<<>>)

SpecCwd == InitList /\ [][NextCwd]_vars

\* the remote repository repo gets a new commit on its master branch
Push(repo) ==
    /\ envCount < MaxEnv
    /\ remote[repo] = "h1"
    /\ remote' = [remote EXCEPT ![repo] = "h2"]
    /\ envCount' = envCount + 1
    /\ last' = EnvRecord
    /\ UNCHANGED <<sources, sources_locked, file_locked, trees, locdirs,
                   locfiles, links, cwd>>

\* reproducible installs: the top-level working trees are installed and
\* locked while the branches move upstream
ReproInstalls == {[DefaultArgs EXCEPT !.depth = 1],
                  [DefaultArgs EXCEPT !.depth = 1, !.fetch = TRUE],
                  [DefaultArgs EXCEPT !.depth = 1, !.update = FALSE],
                  [DefaultArgs EXCEPT !.update = FALSE]}

NextRepro ==
    \/ \E a \in ReproInstalls : Install(a)
    \/ \E obey \in BOOLEAN : Lock(<<>>, obey)
    \/ \E repo \in Repos : Push(repo)
    \/ Uninstall

SpecRepro == Init /\ [][NextRepro]_vars

\* nested Dependency Sets: installs that differ in update, recurse, force,
\* fetch, clean and names, on working trees the user edits
NestInstalls ==
    {DefaultArgs,
     [DefaultArgs EXCEPT !.recurse = TRUE],
     [DefaultArgs EXCEPT !.update = FALSE],
     [DefaultArgs EXCEPT !.update = FALSE, !.recurse = TRUE],
     [DefaultArgs EXCEPT !.force = TRUE],
     [DefaultArgs EXCEPT !.fetch = TRUE],
     [DefaultArgs EXCEPT !.clean = FALSE],
     [DefaultArgs EXCEPT !.names = <<"a">>],
     [DefaultArgs EXCEPT !.names = <<"a">>, !.recurse = TRUE]}

NextNest ==
    \/ \E a \in NestInstalls : Install(a)
    \/ \E p \in DOMAIN trees, tracked \in BOOLEAN : Edit(p, tracked)
    \/ Uninstall

SpecNest == InitList /\ [][NextNest]_vars

\* cyclic declarations: the project declares x (repo rX), rX declares y (repo
\* rY) and rY declares x again; every depth given is finite
InitCyc ==
    /\ sources = <<Source("rX", "x", "master", "")>>
    /\ sources_locked = <<>>
    /\ file_locked = sources_locked
    /\ trees = [x \in {} |-> 0]
    /\ locdirs = {}
    /\ locfiles = {}
    /\ links = [x \in {} |-> 0]
    /\ cwd = InTree(<<>>)
    /\ remote = [r \in Repos \cup CycRepos |-> "h1"]
    /\ envCount = 0
    /\ last = InitLast

CycDepths == 0..MaxCycDepth

CycInstalls ==
    {[DefaultArgs EXCEPT !.depth = d] : d \in CycDepths}
    \cup {[DefaultArgs EXCEPT !.depth = d, !.force = TRUE] : d \in CycDepths}

NextCyc ==
    \/ \E a \in CycInstalls : Install(a)
    \/ \E d \in CycDepths \cup {None}, allow_dirty \in BOOLEAN : List(d, allow_dirty)
    \/ \E p \in DOMAIN trees, tracked \in BOOLEAN : Edit(p, tracked)
    \/ Uninstall

SpecCyc == InitCyc /\ [][NextCyc]_vars

\* the selection policy: every content of sources and sources_locked is
\* given to _get_sources, install_deps and lock_deps
SelSources == {SA, SB, Source("rB", "a", "h2", ""), Source("rC", "b", "h1", "lnk"),
               Source("rC", "d", "h1", "")}

\* the lists a declaration file holds: sorted by dir
SelLists ==
    {<<>>} \cup {<<x>> : x \in SelSources}
           \cup {l \in {<<x, y>> : x \in SelSources, y \in SelSources} :
                    SourceLt(l[1], l[2])}

UseLocked == {"True", "False", "None"}

InitSel ==
    /\ sources \in SelLists
    /\ sources_locked \in SelLists
    /\ file_locked = sources_locked
    /\ trees = [x \in {} |-> 0]
    /\ locdirs = {}
    /\ locfiles = {}
    /\ links = [x \in {} |-> 0]
    /\ cwd = InTree(<<>>)
    /\ remote = [r \in Repos |-> IF r = "rC" THEN "h2" ELSE "h1"]
    /\ envCount = 0
    /\ last = InitLast

SelectRecord(u, r) ==
    [op |-> "select", args |-> NoArgs, obey |-> FALSE, result |-> Ok,
     ret |-> Len(r), log |-> <<>>, failedAt |-> <<>>, repeat |-> FALSE,
     out |-> <<>>, begun |-> <<>>, saved |-> FALSE,
     use_locked |-> u, selected |-> r]

\* self._get_sources(use_locked=u)
Select(u) ==
    \E r \in {_get_sources(TopConfig, u)} :
       /\ last' = SelectRecord(u, r)
       /\ UNCHANGED <<sources, sources_locked, file_locked, trees, locdirs,
                      locfiles, links, cwd, remote, envCount>>

SelInstalls == {[DefaultArgs EXCEPT !.depth = 1],
                [DefaultArgs EXCEPT !.depth = 1, !.update = FALSE]}

NextSel ==
    \/ \E u \in UseLocked : Select(u)
    \/ \E a \in SelInstalls : Install(a)
    \/ \E names \in LockNames, obey \in BOOLEAN : Lock(names, obey)

SpecSel == InitSel /\ [][NextSel]_vars

-----------------------------------------------------------------------------
(* What an operation did, read off its record *)

Dirs == {"a", "b", "c", "d"}

\* the deepest nesting the repositories above declare
MaxNest == 3

RECURSIVE PathsOfLen(_)
PathsOfLen(n) ==
    IF n = 0 THEN {<<>>}
    ELSE {Append(p, d) : p \in PathsOfLen(n - 1), d \in Dirs}

Paths == UNION {PathsOfLen(n) : n \in 1..MaxNest}

\* the working trees that were checked out / touched by a VCS or link operation
Materialized(log) == {log[i].path : i \in {j \in 1..Len(log) : log[j].op = "update"}}

Touched(log) ==
    {log[i].path :
        i \in {j \in 1..Len(log) : log[j].op \in {"clone", "fetch", "update", "ln"}}}

Fetched(log) == {log[i].path : i \in {j \in 1..Len(log) : log[j].op = "fetch"}}

DirsOf(srcs) == {srcs[i].dir : i \in 1..Len(srcs)}

\* the Dependency Set declared by the project at path q, with the working
\* trees tr on disk
ConfigIn(tr, q) ==
    IF q = <<>> THEN TopConfig
    ELSE IF q \in DOMAIN tr
    THEN RepoConfig(tr[q].repo, tr[q].head)
    ELSE NoConfig

\* the directoryNames an install with arguments a works on in project q
EffDirsIn(tr, q, a) ==
    LET upd == IF q = <<>> THEN a.update ELSE a.update /\ a.recurse
        cfg == ConfigIn(tr, q)
        eff == IF upd \/ cfg.sources_locked = <<>> THEN cfg.sources
               ELSE cfg.sources_locked
    IN IF q = <<>> /\ a.names # <<>> THEN DirsOf(eff) \cap Range(a.names)
       ELSE DirsOf(eff)

\* the Sources at the nesting levels the depth of a allows
IsExpectedIn(tr, a, p) ==
    /\ a.depth = None \/ Len(p) <= a.depth
    /\ \A i \in 1..Len(p) : p[i] \in EffDirsIn(tr, SubSeq(p, 1, i - 1), a)

ExpectedIn(tr, a) == {p \in Paths : IsExpectedIn(tr, a, p)}

EffDirs(q, a) == EffDirsIn(trees, q, a)

Expected(a) == ExpectedIn(trees, a)

\* q comes after f in the depth-first order of the traversal
After(q, f) ==
    \E i \in 1..Len(q) :
        /\ i <= Len(f)
        /\ SubSeq(q, 1, i - 1) = SubSeq(f, 1, i - 1)
        /\ DirOrd(q[i]) > DirOrd(f[i])

Beneath(q, f) == IsPrefix(f, q) /\ q # f

IsInstall(l) == l.op = "install"

\* the directoryNames the last lock_deps call was to lock
LockTargets ==
    LET eff == _get_sources(TopConfig, IF last.obey THEN "True" ELSE "False")
    IN {d \in DirsOf(eff) : last.args.names = <<>> \/ d \in Range(last.args.names)}

-----------------------------------------------------------------------------
(* The claims *)

\* C1: install_deps called with depth = 0 returns 0 and changes nothing: no
\* directory is made, the working directory stays, and no clone, fetch,
\* checkout or link is performed, whatever the other arguments are.
C1_DepthZeroIsNoop ==
    [][(IsInstall(last') /\ last'.args.depth = 0)
         => /\ last'.result = Ok
            /\ last'.ret = 0
            /\ last'.log = <<>>
            /\ UNCHANGED <<trees, locdirs, links, cwd>>]_vars

C1_Witness ==
    /\ IsInstall(last) /\ last.args.depth = 0 /\ last.ret = 0
    /\ DOMAIN trees # {}

\* C2: a successful install_deps without names and with depth d >= 1 checks
\* out exactly the Sources at the nesting levels 1..d and returns their
\* number; with depth=None it checks out the Sources of every level.
C2_DepthBoundsLevels ==
    (IsInstall(last) /\ last.result = Ok /\ last.args.names = <<>>
        /\ last.args.depth # 0)
    => /\ Materialized(last.log) = Expected(last.args)
       /\ Touched(last.log) \subseteq Expected(last.args)
       /\ last.ret = Cardinality(Expected(last.args))

C2_Witness ==
    /\ IsInstall(last) /\ last.result = Ok /\ last.args.names = <<>>
    /\ last.args.depth = 2 /\ last.ret = 3
    /\ <<"a", "b">> \in DOMAIN trees
    /\ <<"a", "b", "c">> \notin DOMAIN trees

\* C3: install_deps with names of which none is the dir of an effective
\* Source returns 0 and clones, fetches, checks out and links nothing.
C3_UnknownNamesInstallNothing ==
    (IsInstall(last) /\ last.args.names # <<>> /\ last.args.depth # 0
        /\ EffDirs(<<>>, last.args) = {})
    => /\ last.result = Ok
       /\ last.ret = 0
       /\ Touched(last.log) = {}

C3_Witness ==
    /\ IsInstall(last) /\ last.args.names = <<"zz">>
    /\ last.ret = 0 /\ Touched(last.log) = {}
    /\ <<>> \in locdirs

\* C4: when one of the names given to install_deps matches no effective
\* Source, the call returns 0 and materializes no Source at all, the Sources
\* whose names did match included.
C4_UnknownNameVoidsInstall ==
    (IsInstall(last) /\ last.result = Ok /\ last.args.depth # 0
        /\ \E n \in Range(last.args.names) :
              n \notin DirsOf(_get_sources(TopConfig,
                                           InstallUseLocked(last.args.update))))
    => /\ last.ret = 0
       /\ Touched(last.log) = {}

\* C5: locking a Source whose working tree has local modifications fails
\* with Uncommitted Changes, and no entry with the DIRTY revision is ever
\* placed in sources_locked.
C5_NoDirtyLock ==
    /\ \A i \in 1..Len(sources_locked) : sources_locked[i].rev # DIRTY
    /\ (last.op = "lock" /\ <<>> \in locdirs
          /\ \E d \in LockTargets : <<d>> \in DOMAIN trees /\ trees[<<d>>].modified)
       => last.result = UncommittedChanges

\* C6: a lock_deps call that fails while locking some Source leaves
\* sources_locked exactly as it was before the call, also when Sources
\* earlier in the iteration had been locked, and persists nothing.
C6_FailedLockWritesNothing ==
    [][(last'.op = "lock" /\ last'.result # Ok)
         => /\ sources_locked' = sources_locked
            /\ file_locked' = file_locked]_vars

\* C7: lock() of a Source whose directory is missing raises Invalid
\* Repository and returns no Source; no entry of sources_locked ever has
\* the UNKNOWN revision.
C7_MissingLockFails ==
    /\ \A i \in 1..Len(sources_locked) : sources_locked[i].rev # UNKNOWN
    /\ (last.op = "lock" /\ <<>> \in locdirs
          /\ \E d \in LockTargets : <<d>> \notin DOMAIN trees)
       => /\ last.result = InvalidRepository
          /\ last.ret = NoCount

C7_Witness ==
    /\ last.op = "lock" /\ last.result = InvalidRepository
    /\ last.failedAt = <<"b">>
    /\ <<"a">> \in DOMAIN trees

\* C8: when install_deps is called twice in a row with the same arguments,
\* whatever they are, and the first call succeeded, the second call fetches
\* nothing and returns the count of the first.
C8_RepeatedInstallNoFetch ==
    [][(IsInstall(last) /\ last.result = Ok
          /\ IsInstall(last') /\ last'.args = last.args)
         => /\ Fetched(last'.log) = {}
            /\ last'.ret = last.ret]_vars

\* C8 as amended: the same, for the calls that do not set fetch; the second
\* call succeeds as well.
C8_RepeatedInstallNoFetchUnlessAlways ==
    [][(IsInstall(last) /\ last.result = Ok
          /\ IsInstall(last') /\ last'.args = last.args
          /\ ~last.args.fetch)
         => /\ last'.result = Ok
            /\ Fetched(last'.log) = {}
            /\ last'.ret = last.ret]_vars

C8_Witness ==
    /\ IsInstall(last) /\ last.repeat /\ ~last.args.fetch
    /\ last.ret = 4
    /\ Fetched(last.log) = {}
    /\ Materialized(last.log) = {<<"a">>, <<"a", "b">>, <<"a", "b", "c">>, <<"b">>}

\* C9: without force, install_deps neither fetches nor checks out in a
\* working tree that has local modifications (untracked files counted when
\* clean is set): the tree stays as it was, and the call raises Uncommitted
\* Changes when such a tree is one of its top-level targets.
C9_DirtyTreeIsKept ==
    [][(IsInstall(last') /\ ~last'.args.force)
         => /\ \A p \in DOMAIN trees :
                 changes(trees[p], last'.args.clean)
                 => /\ p \in DOMAIN trees'
                    /\ trees'[p] = trees[p]
                    /\ \A i \in 1..Len(last'.log) :
                          last'.log[i].path = p
                          => last'.log[i].op \notin {"clone", "fetch", "update"}
            /\ (/\ last'.args.depth # 0
                /\ \E d \in EffDirs(<<>>, last'.args) :
                      /\ <<d>> \in DOMAIN trees
                      /\ changes(trees[<<d>>], last'.args.clean))
               => last'.result = UncommittedChanges]_vars

C9_Witness ==
    /\ IsInstall(last) /\ ~last.args.force
    /\ last.result = UncommittedChanges
    /\ last.failedAt \in DOMAIN trees
    /\ ~trees[last.failedAt].modified
    /\ trees[last.failedAt].untracked

\* C10: Uncommitted Changes raised for a Source at any nesting level aborts
\* the top-level install_deps: it returns no count, nothing is done to a
\* Source that comes after the failing one or lies beneath it, and what was
\* checked out before the failure stays on disk.
C10_FailureAbortsInstall ==
    [][IsInstall(last')
         => /\ (/\ ~last'.args.force
                /\ \E p \in DOMAIN trees :
                      /\ changes(trees[p], last'.args.clean)
                      /\ IsExpectedIn(trees', last'.args, p))
               => last'.result = UncommittedChanges
            /\ last'.result # Ok
               => /\ last'.result = UncommittedChanges
                  /\ last'.ret = NoCount
                  /\ \A q \in Touched(last'.log) :
                        /\ ~After(q, last'.failedAt)
                        /\ ~Beneath(q, last'.failedAt)
                  /\ \A i \in 1..Len(last'.log) :
                        last'.log[i].op = "update"
                        => /\ last'.log[i].path \in DOMAIN trees'
                           /\ trees'[last'.log[i].path].head =
                                RevHash(trees'[last'.log[i].path], last'.log[i].rev)]_vars

C10_Witness ==
    /\ IsInstall(last) /\ last.result = UncommittedChanges
    /\ Len(last.failedAt) = 2
    /\ <<"a">> \in Materialized(last.log)
    /\ <<"b">> \notin Touched(last.log)

\* the selection policy as the specification states it
Policy(u, srcs, locked) ==
    CASE u = "False" -> srcs
      [] u = "True" -> IF locked = <<>> THEN <<>> ELSE locked
      [] OTHER -> IF locked = <<>> THEN srcs ELSE locked

\* the directoryNames whose processing an operation began at the top level,
\* in the order it took them
RECURSIVE TopBegun(_)
TopBegun(b) ==
    IF b = <<>> THEN <<>>
    ELSE IF Head(b).of = <<>> THEN <<Head(b).dir>> \o TopBegun(Tail(b))
    ELSE TopBegun(Tail(b))

DirSeq(srcs) == [i \in 1..Len(srcs) |-> srcs[i].dir]

\* C11: _get_sources follows the three-way policy for every content of
\* sources and sources_locked (use_locked=True never falls back to sources);
\* install_deps works on the list of use_locked=False when update is set and
\* of use_locked=None otherwise, lock_deps on the list of
\* use_locked=obey_existing.
C11_SelectionPolicy ==
    [][/\ last'.op = "select"
          => last'.selected = Policy(last'.use_locked, sources, sources_locked)
       /\ (IsInstall(last') /\ last'.result = Ok /\ last'.args.names = <<>>
            /\ last'.args.depth # 0)
          => TopBegun(last'.begun) =
               DirSeq(Policy(IF last'.args.update THEN "False" ELSE "None",
                             sources, sources_locked))
       /\ (last'.op = "lock" /\ last'.result = Ok /\ last'.args.names = <<>>)
          => TopBegun(last'.begun) =
               DirSeq(Policy(IF last'.obey THEN "True" ELSE "False",
                             sources, sources_locked))]_vars

C11_Witness ==
    /\ last.op = "select" /\ last.use_locked = "True"
    /\ sources_locked = <<>> /\ sources # <<>>
    /\ last.selected = <<>>

IsList(l) == l.op = "list"

\* C12: get_deps yields nothing and raises nothing whenever the
\* materialization directory does not exist, whatever depth and allow_dirty
\* are: on a project never installed, and after uninstall_deps, which leaves
\* no materialization directory and no working tree.
C12_ListWithoutLocationIsEmpty ==
    [][/\ (IsList(last') /\ <<>> \notin locdirs)
          => /\ last'.result = Ok
             /\ last'.out = <<>>
             /\ last'.begun = <<>>
             /\ UNCHANGED <<trees, locdirs, links, cwd>>
       /\ last'.op = "uninstall"
          => /\ locdirs' = {}
             /\ DOMAIN trees' = {}]_vars

C12_Witness ==
    /\ IsList(last) /\ last.out = <<>> /\ last.result = Ok
    /\ ~last.args.allow_dirty
    /\ <<>> \notin locdirs
    /\ <<<<>>, "lnk">> \in DOMAIN links

\* the Sources a listing of depth d is to yield: those declared in sources
\* at each level, as far as the materialization directories exist
ListedIn(tr, ld, d) ==
    {p \in Paths :
        /\ d = None \/ Len(p) <= d
        /\ \A i \in 1..Len(p) :
              /\ SubSeq(p, 1, i - 1) \in ld
              /\ p[i] \in DirsOf(ConfigIn(tr, SubSeq(p, 1, i - 1)).sources)}

\* C13: get_deps(depth=d) walks depth-first in pre-order within the depth
\* budget: with d = 0 it yields and identifies nothing; with finite d every
\* entry comes from a nesting level in 1..d and nothing is identified
\* without being yielded; an entry is followed by the entries of its nested
\* Dependency Set before the next sibling's, and the entries are those of
\* the Sources declared at the levels the budget allows.
C13_ListIsPreorderWithinDepth ==
    (IsList(last) /\ last.result = Ok)
    => /\ last.args.depth = 0 => (last.out = <<>> /\ last.begun = <<>>)
       /\ Len(last.begun) = Len(last.out)
       /\ \A i \in 1..Len(last.out) :
             /\ last.out[i].level >= 1
             /\ last.args.depth # None => last.out[i].level <= last.args.depth
             /\ i > 1 => last.out[i].level <= last.out[i - 1].level + 1
       /\ locfiles = {}
          => /\ {last.out[i].of : i \in 1..Len(last.out)}
                  = ListedIn(trees, locdirs, last.args.depth)
             /\ \A i \in 1..Len(last.out) :
                   /\ last.out[i].level = Len(last.out[i].of)
                   /\ \A j \in (i + 1)..Len(last.out) :
                         /\ last.out[i].of # last.out[j].of
                         /\ \/ IsPrefix(last.out[i].of, last.out[j].of)
                            \/ After(last.out[j].of, last.out[i].of)

C13_Witness ==
    /\ IsList(last) /\ last.result = Ok /\ last.args.depth = 2
    /\ Len(last.out) = 3
    /\ last.out[2].of = <<"a", "b">>
    /\ last.out[3].of = <<"b">>
    /\ <<"a", "b", "c">> \in DOMAIN trees

\* C14: when install_deps with default arguments has succeeded and returned
\* n, a get_deps with unbounded depth that follows it yields exactly n
\* entries, whatever the declaration tree is.
C14_ListCountsWhatInstallCounted ==
    [][(/\ IsInstall(last) /\ last.args = DefaultArgs /\ last.result = Ok
        /\ IsList(last') /\ last'.args.depth = None /\ last'.result = Ok)
         => Len(last'.out) = last.ret]_vars

\* the revisions the last call checked out in the top-level working tree d
CheckedOut(log, d) ==
    {log[i].rev : i \in {j \in 1..Len(log) :
                            log[j].op = "update" /\ log[j].path = <<d>>}}

\* C15: lock_deps records for every Source it locks the commit its clean
\* working tree is at, and every later successful install_deps with
\* update=False checks each locked Source out at exactly the recorded
\* commit, also when the branch has moved upstream in between; with an
\* empty sources_locked the same call checks out the revisions of sources.
C15_LockedInstallIsReproducible ==
    [][/\ (last'.op = "lock" /\ last'.result = Ok /\ ~last'.obey
            /\ last'.args.names = <<>>)
          => \A i \in 1..Len(sources) :
                \E j \in 1..Len(sources_locked') :
                   /\ sources_locked'[j].dir = sources[i].dir
                   /\ sources_locked'[j].repo = sources[i].repo
                   /\ sources_locked'[j].rev = trees[<<sources[i].dir>>].head
       /\ (IsInstall(last') /\ ~last'.args.update /\ last'.args.names = <<>>
            /\ last'.args.depth # 0 /\ last'.result = Ok)
          => IF sources_locked # <<>>
             THEN \A i \in 1..Len(sources_locked) :
                     /\ <<sources_locked[i].dir>> \in DOMAIN trees'
                     /\ trees'[<<sources_locked[i].dir>>].head = sources_locked[i].rev
                     /\ CheckedOut(last'.log, sources_locked[i].dir)
                           = {sources_locked[i].rev}
                     /\ DirsOf(sources) \ DirsOf(sources_locked)
                           \subseteq {d \in Dirs : CheckedOut(last'.log, d) = {}}
             ELSE \A i \in 1..Len(sources) :
                     CheckedOut(last'.log, sources[i].dir) = {sources[i].rev}]_vars

C15_Witness ==
    /\ IsInstall(last) /\ ~last.args.update /\ last.result = Ok
    /\ Len(sources_locked) = 2
    /\ remote["rA"] = "h2"
    /\ trees[<<"a">>].master = "h2"
    /\ trees[<<"a">>].head = "h1"
    /\ CheckedOut(last.log, "a") = {"h1"}

\* C16: in install_deps, lock_deps and get_deps the working directory is
\* the materialization directory of the declaring Dependency Set whenever
\* the processing of a Source begins, whatever the Source before it did:
\* recursed, was skipped by the name filter, or had no directory.
C16_SourcesStartInLocation ==
    /\ \A i \in 1..Len(last.begun) :
          last.begun[i].cwd = InLoc(last.begun[i].of)
    /\ Outside \notin DOMAIN trees

C16_Witness ==
    /\ IsList(last) /\ Len(last.out) = 2
    /\ last.out[1].rev = UNKNOWN
    /\ last.out[2].of = <<"b">>
    /\ last.begun[2].cwd = InLoc(<<>>)
    /\ sources_locked # <<>>
    /\ <<"b">> \in DOMAIN trees

\* C17: for a declared Source whose directory is missing get_deps yields
\* the one entry ("<missing>", UNKNOWN) and no entry of a nested Dependency
\* Set on its behalf: the entry that follows is not of a deeper level,
\* whatever declaration file lies in the materialization directory.
C17_MissingSourceHasNoNested ==
    (IsList(last) /\ last.result = Ok)
    => \A i \in 1..Len(last.out) :
          last.out[i].rev = UNKNOWN
          => /\ last.out[i].url = MISSING
             /\ i < Len(last.out) => last.out[i + 1].level <= last.out[i].level

\* the number of entries of the list l with directoryName d
CountDir(l, d) == Cardinality({i \in 1..Len(l) : l[i].dir = d})

\* the Source of the list l with directoryName d
SourceOf(l, d) == l[CHOOSE i \in 1..Len(l) : l[i].dir = d]

\* the list the lock_deps call of the step works on, and its target set
LockList == Policy(IF last'.obey THEN "True" ELSE "False", sources, sources_locked)

LockSet ==
    {d \in DirsOf(LockList) :
        last'.args.names = <<>> \/ d \in Range(last'.args.names)}

\* what lock() makes of the Source with directoryName d
LockedOf(d) ==
    Source(SourceOf(LockList, d).repo, d, trees[<<d>>].head, SourceOf(LockList, d).link)

\* the same, for a working tree that may have local modifications
LockedOfTree(d) ==
    Source(SourceOf(LockList, d).repo, d,
           IF changes(trees[<<d>>], FALSE) THEN DIRTY ELSE trees[<<d>>].head,
           SourceOf(LockList, d).link)

\* C18: a successful lock_deps replaces, for each target Source, the entry
\* of sources_locked with the same dir (whatever its repo and rev) in place
\* by the locked Source, or appends the locked Source when there is none: no
\* dir comes to have more than one entry, and the entries of other dirs
\* stay as they are, stale ones included.
C18_LockSubstitutesByDir ==
    [][(last'.op = "lock" /\ last'.result = Ok)
         => /\ \A d \in Dirs :
                  CountDir(sources_locked, d) <= 1
                  => CountDir(sources_locked', d) <= 1
            /\ Len(sources_locked')
                  = Len(sources_locked)
                    + Cardinality(LockSet \ DirsOf(sources_locked))
            /\ \A i \in 1..Len(sources_locked) :
                  sources_locked'[i] =
                     IF sources_locked[i].dir \in LockSet
                     THEN LockedOf(sources_locked[i].dir)
                     ELSE sources_locked[i]
            /\ \A d \in LockSet \ DirsOf(sources_locked) :
                  \E j \in (Len(sources_locked) + 1)..Len(sources_locked') :
                     sources_locked'[j] = LockedOf(d)
            /\ last'.ret = Cardinality(LockSet)]_vars

C18_Witness ==
    /\ last.op = "lock" /\ last.result = Ok /\ ~last.obey
    /\ sources_locked = <<Source("rA", "a", "h2", ""), Source("rC", "d", "h1", "")>>
    /\ trees[<<"a">>].repo = "rB"

\* C19: lock_deps writes the declaration file if and only if it locked at
\* least one Source: a call that returns 0 writes nothing, a call that
\* returns a count > 0 writes once, with every Source of the target set
\* locked, and a call that raises writes nothing.
C19_LockSavesIffLocked ==
    [][last'.op = "lock"
         => /\ (last'.result = Ok /\ last'.ret = 0)
               => /\ ~last'.saved
                  /\ file_locked' = file_locked
                  /\ sources_locked' = sources_locked
            /\ (last'.result = Ok /\ last'.ret > 0)
               => /\ last'.saved
                  /\ last'.ret = Cardinality(LockSet)
                  /\ file_locked' = Sorted(sources_locked')
                  /\ \A d \in LockSet :
                        \E i \in 1..Len(file_locked') : file_locked'[i] = LockedOfTree(d)
            /\ last'.result # Ok
               => /\ ~last'.saved
                  /\ file_locked' = file_locked]_vars

C19_Witness ==
    /\ last.op = "lock" /\ last.result = Ok /\ last.ret = 0
    /\ last.args.names = <<"zz">>
    /\ ~last.obey
    /\ ~last.saved
    /\ {<<"a">>, <<"b">>} \subseteq DOMAIN trees

\* where the link of the top-level Source b goes
TopLink == <<<<>>, "lnk">>

\* does the project at q declare a Source with the link alias?
DeclaresLink(tr, q, alias) ==
    \E x \in Range(ConfigIn(tr, q).sources) \cup Range(ConfigIn(tr, q).sources_locked) :
       x.link = alias

LinksMade(log) == {log[i].path : i \in {j \in 1..Len(log) : log[j].op = "ln"}}

\* C20: create_link without force never replaces what is not a symbolic
\* link: the install raises Uncommitted Changes, the entry stays and no link
\* is made; a symbolic link at the target is replaced by the link to the
\* Source, so that linking again changes nothing; for a Source without link
\* nothing is linked or removed.
C20_LinkNeverClobbers ==
    [][(IsInstall(last') /\ last'.args.depth # 0)
         => /\ (/\ ~last'.args.force
                 /\ "b" \in EffDirs(<<>>, last'.args)
                 /\ LinkKind(St, TopLink) = "file")
               => /\ last'.result = UncommittedChanges
                  /\ TopLink \in DOMAIN links'
                  /\ links'[TopLink] = links[TopLink]
                  /\ <<"b">> \notin LinksMade(last'.log)
            /\ (/\ last'.result = Ok
                 /\ "b" \in EffDirs(<<>>, last'.args))
               => /\ TopLink \in DOMAIN links'
                  /\ links'[TopLink] = [kind |-> "symlink", to |-> <<"b">>]
                  /\ LinkKind(St, TopLink) = "symlink"
                        => links'[TopLink] = links[TopLink]
            /\ \A t \in DOMAIN links \cup DOMAIN links' :
                  (t \notin DOMAIN links \/ t \notin DOMAIN links'
                     \/ links'[t] # links[t])
                  => DeclaresLink(trees', t[1], t[2])
            /\ \A p \in LinksMade(last'.log) :
                  \E x \in Range(ConfigIn(trees', SubSeq(p, 1, Len(p) - 1)).sources)
                           \cup Range(ConfigIn(trees', SubSeq(p, 1, Len(p) - 1)).sources_locked) :
                     x.dir = p[Len(p)] /\ x.link # ""]_vars

C20_Witness ==
    /\ IsInstall(last) /\ ~last.args.force
    /\ last.result = UncommittedChanges
    /\ last.failedAt = <<"b">>
    /\ <<"b">> \in Materialized(last.log)
    /\ LinkKind(St, TopLink) = "file"

\* the directoryNames whose processing the call began in the project at q
RECURSIVE BegunAt(_, _)
BegunAt(b, q) ==
    IF b = <<>> THEN <<>>
    ELSE IF Head(b).of = q THEN <<Head(b).dir>> \o BegunAt(Tail(b), q)
    ELSE BegunAt(Tail(b), q)

\* the list of the sequence l restricted to the names (all of it for <<>>)
RECURSIVE Named(_, _)
Named(l, names) ==
    IF l = <<>> THEN <<>>
    ELSE IF names = <<>> \/ Head(l) \in Range(names)
    THEN <<Head(l)>> \o Named(Tail(l), names)
    ELSE Named(Tail(l), names)

\* C21: a successful install_deps hands update and recurse to the nested
\* Dependency Sets: the top level works on its sources when update is set,
\* a nested set on its sources only when update and recurse are both set and
\* on its sources_locked, when not empty, otherwise; the name filter stops
\* at the top level; fetch, force and clean act at every level as given.
C21_UpdateNeedsRecurseBelow ==
    [][(IsInstall(last') /\ last'.args.depth = None)
         => /\ last'.result = Ok
               => /\ \A i \in 1..Len(last'.begun) :
                        LET q == last'.begun[i].of
                            cfg == ConfigIn(trees', q)
                            u == IF q = <<>>
                                 THEN (IF last'.args.update THEN "False" ELSE "None")
                                 ELSE (IF last'.args.update /\ last'.args.recurse
                                       THEN "False" ELSE "None")
                        IN BegunAt(last'.begun, q) =
                             Named(DirSeq(Policy(u, cfg.sources, cfg.sources_locked)),
                                   IF q = <<>> THEN last'.args.names ELSE <<>>)
                  /\ last'.args.fetch => Fetched(last'.log) = Materialized(last'.log)
                  /\ \A p \in Materialized(last'.log) :
                        /\ ~trees'[p].modified
                        /\ last'.args.clean => ~trees'[p].untracked
                        /\ (~last'.args.clean /\ p \in DOMAIN trees)
                              => trees'[p].untracked = trees[p].untracked
            /\ last'.args.force => last'.result = Ok
            /\ (~last'.args.force /\ last'.result # Ok)
               => /\ last'.failedAt \in DOMAIN trees
                  /\ changes(trees[last'.failedAt], last'.args.clean)]_vars

C21_Witness ==
    /\ IsInstall(last) /\ last.result = Ok
    /\ last.args.update /\ ~last.args.recurse /\ last.args.depth = None
    /\ trees[<<"a">>].head = "h2"
    /\ BegunAt(last.begun, <<>>) = <<"a", "b">>
    /\ BegunAt(last.begun, <<"a">>) = <<"b", "d">>
    /\ trees[<<"a", "b">>].head = "h1"

\* the working tree at nesting level n of the cyclic declarations
RECURSIVE CycPath(_)
CycPath(n) ==
    IF n = 0 THEN <<>>
    ELSE Append(CycPath(n - 1), IF n % 2 = 1 THEN "x" ELSE "y")

\* C22: with a finite depth d install_deps and get_deps end after at most d
\* nesting levels also when the declarations are cyclic: a successful
\* install of depth d materializes the d working trees of the levels 1..d
\* and returns d, a listing of depth d yields at most d entries, all of
\* levels 1..d, and no Source is processed below level d; the depth handed
\* down is smaller by one and never negative.  With unbounded depth a
\* listing ends where the working trees on disk end.
C22_FiniteDepthBoundsRecursion ==
    /\ \A d \in 0..(MaxCycDepth + 1) :
          /\ NestedDepth(d) >= 0 /\ ListNestedDepth(d) >= 0
          /\ d > 0 => (NestedDepth(d) = d - 1 /\ ListNestedDepth(d) = d - 1)
    /\ NestedDepth(None) = None /\ ListNestedDepth(None) = None
    /\ (IsInstall(last) \/ IsList(last))
       => /\ last.args.depth # None
             => \A i \in 1..Len(last.begun) :
                   Len(last.begun[i].of) + 1 <= last.args.depth
          /\ \A i \in 1..Len(last.begun) :
                \A j \in 1..Len(last.begun) :
                   last.begun[i].of = last.begun[j].of => i = j
    /\ (IsInstall(last) /\ last.result = Ok)
       => /\ last.ret = last.args.depth
          /\ Materialized(last.log) = {CycPath(n) : n \in 1..last.args.depth}
    /\ (IsList(last) /\ last.result = Ok)
       => /\ last.args.depth # None => Len(last.out) <= last.args.depth
          /\ \A i \in 1..Len(last.out) :
                /\ last.out[i].level = i
                /\ last.out[i].of = CycPath(i)
                /\ i < Len(last.out) => CycPath(i) \in DOMAIN trees

C22_Witness ==
    /\ IsList(last) /\ last.result = Ok /\ last.args.depth = 2
    /\ Len(last.out) = 2
    /\ last.out[2].url = "rY"
    /\ CycPath(3) \in DOMAIN trees
    /\ trees[CycPath(3)].repo = "rX"

\* C23: lock_deps with obey_existing=True works on sources_locked itself: it
\* changes revisions only, never the directoryNames of sources_locked; with
\* sources_locked empty and the Sources installed it locks nothing, returns
\* 0 and writes nothing.  No lock_deps call clones, fetches, checks out or
\* links, and none processes a Source of a nested project.
C23_ObeyExistingKeepsDirs ==
    [][last'.op = "lock"
         => /\ last'.obey
               => /\ DirSeq(sources_locked') = DirSeq(sources_locked)
                  /\ \A i \in 1..Len(sources_locked) :
                        /\ sources_locked'[i].repo = sources_locked[i].repo
                        /\ sources_locked'[i].link = sources_locked[i].link
            /\ (last'.obey /\ sources_locked = <<>> /\ <<>> \in locdirs)
               => /\ last'.result = Ok
                  /\ last'.ret = 0
                  /\ last'.begun = <<>>
                  /\ ~last'.saved
                  /\ sources_locked' = <<>>
                  /\ file_locked' = file_locked
            /\ DirsOf(sources_locked') \ DirsOf(sources_locked) # {}
               => ~last'.obey
            /\ UNCHANGED <<trees, locdirs, links>>
            /\ last'.log = <<>>
            /\ \A i \in 1..Len(last'.begun) : last'.begun[i].of = <<>>]_vars

C23_Witness ==
    /\ last.op = "lock" /\ last.obey /\ last.result = Ok /\ last.ret = 0
    /\ last.args.names = <<>>
    /\ sources_locked = <<>>
    /\ {<<"a">>, <<"b">>} \subseteq DOMAIN trees

\* the paths at or beneath the top-level working tree d
Under(paths, d) == {p \in paths : Len(p) >= 1 /\ p[1] = d}

\* C24: with sources_locked holding entries for some of the declared
\* Sources only, a successful install_deps with update=False and no names
\* processes exactly the Sources of sources_locked, touches no Source that
\* has no lock entry and returns the number of working trees it checked
\* out; called with the name of an unlocked Source alone it returns 0 and
\* touches nothing.
C24_PartialLockHidesUnlocked ==
    (/\ IsInstall(last) /\ ~last.args.update /\ last.args.depth # 0
     /\ sources_locked # <<>>
     /\ DirsOf(sources) \ DirsOf(sources_locked) # {})
    => /\ (last.args.names = <<>> /\ last.result = Ok)
          => /\ TopBegun(last.begun) = DirSeq(sources_locked)
             /\ {p \in Materialized(last.log) : Len(p) = 1}
                   = {<<d>> : d \in DirsOf(sources_locked)}
             /\ \A d \in DirsOf(sources) \ DirsOf(sources_locked) :
                   Under(Touched(last.log), d) = {}
             /\ last.ret = Cardinality(Materialized(last.log))
             /\ last.ret = Len(sources_locked)
                   + Cardinality({p \in Materialized(last.log) : Len(p) > 1})
       /\ (last.args.names # <<>>
            /\ Range(last.args.names) \cap DirsOf(sources_locked) = {})
          => /\ last.result = Ok
             /\ last.ret = 0
             /\ Touched(last.log) = {}
             /\ last.begun = <<>>

C24_Witness ==
    /\ IsInstall(last) /\ ~last.args.update /\ last.result = Ok
    /\ last.args.names = <<>> /\ last.args.depth = None
    /\ DirSeq(sources_locked) = <<"a">>
    /\ last.ret = 3
    /\ <<"b">> \notin DOMAIN trees
    /\ <<"a", "b", "c">> \in DOMAIN trees

====
